---- MODULE Spec2Model ----
(***************************************************************************)
(* A model of scripts/analyze_exit_survey.py: the XLSX reader (parse_xlsx),*)
(* the score normalisation and aggregation of main, the ranking, and the   *)
(* order in which main creates the output directory and writes the four    *)
(* report files.                                                           *)
(*                                                                         *)
(* Python str values are TLA+ strings; a character is a string of length 1.*)
(* Python dicts are functions on their key set; lists are sequences.       *)
(* Floats: every normalised score is a multiple of 12.5, kept exactly as   *)
(* an integer number of thousandths (100.0 is 100000); a mean is kept as   *)
(* the exact fraction sum/count and compared by cross-multiplication.      *)
(***************************************************************************)
EXTENDS Integers, Sequences, FiniteSets, TLC

VARIABLES
    pc,              \* position of the run
    err,             \* the exception that ended the run, "none" while running
    out_dir,         \* the output directory: "absent", "present" (it was
                     \* there before the run) or "created" (by the run)
    files,           \* names of the report files written so far
    shared_strings,  \* parse_xlsx: the shared-string pool
    rows,            \* parse_xlsx: the raw rows parsed so far
    columns,         \* parse_xlsx: the column names
    questions,       \* parse_xlsx: column name -> question text
    records,         \* parse_xlsx: the records returned
    row_cells,       \* parse_xlsx: the cells of the row element parsed last
    idx,             \* main: number of records processed by the loop
    long_rows,       \* main: the long-format rows
    course_scores,   \* main: course -> [core, elective] score lists
    ranking_rows,    \* main: the ranking
    question_text,   \* parse_course_name: the argument
    course_name      \* parse_course_name: <<>> before the call, <<result>> after

vars == <<pc, err, out_dir, files, shared_strings, rows, columns, questions,
          records, row_cells, idx, long_rows, course_scores, ranking_rows,
          question_text, course_name>>

(***************************************************************************)
(* Bounds of the model.                                                    *)
(***************************************************************************)
MaxRows == 5

(***************************************************************************)
(* Strings.                                                                *)
(***************************************************************************)
CharAt(s, i) == SubSeq(s, i, i)

IndexIn(chars, char) == CHOOSE i \in 1..Len(chars) : CharAt(chars, i) = char

Has(chars, char) == \E i \in 1..Len(chars) : CharAt(chars, i) = char

DigitChars == "0123456789"
UpperChars == "ABCDEFGHIJKLMNOPQRSTUVWXYZ"
LowerChars == "abcdefghijklmnopqrstuvwxyz"
\* The characters from " " (32) to "/" (47) that the model uses, with "!"
\* standing in the places of the ones it does not.
PunctChars == " !!!!!!!!!!+!-./"

\* ord(char) for the characters the model uses.
Ord(char) ==
    IF Has(DigitChars, char) THEN 47 + IndexIn(DigitChars, char)
    ELSE IF Has(UpperChars, char) THEN 64 + IndexIn(UpperChars, char)
    ELSE IF Has(LowerChars, char) THEN 96 + IndexIn(LowerChars, char)
    ELSE IF char = "_" THEN 95
    ELSE 31 + IndexIn(PunctChars, char)

Upper == {CharAt(UpperChars, i) : i \in 1..Len(UpperChars)}
Digits == {CharAt(DigitChars, i) : i \in 1..Len(DigitChars)}
Whitespace == {" "}

RECURSIVE LStrip(_)
LStrip(s) ==
    IF Len(s) > 0 /\ CharAt(s, 1) \in Whitespace
    THEN LStrip(SubSeq(s, 2, Len(s)))
    ELSE s

RECURSIVE RStrip(_)
RStrip(s) ==
    IF Len(s) > 0 /\ CharAt(s, Len(s)) \in Whitespace
    THEN RStrip(SubSeq(s, 1, Len(s) - 1))
    ELSE s

\* str.strip()
Strip(s) == RStrip(LStrip(s))

\* s.startswith(p)
StartsWith(s, p) == Len(s) >= Len(p) /\ SubSeq(s, 1, Len(p)) = p

\* s < t for Python strings: code point by code point, a proper prefix first.
RECURSIVE StrLess(_, _)
StrLess(s, t) ==
    IF Len(t) = 0 THEN FALSE
    ELSE IF Len(s) = 0 THEN TRUE
    ELSE IF CharAt(s, 1) = CharAt(t, 1)
         THEN StrLess(SubSeq(s, 2, Len(s)), SubSeq(t, 2, Len(t)))
         ELSE Ord(CharAt(s, 1)) < Ord(CharAt(t, 1))

\* The value of a string of decimal digits.
RECURSIVE DigitsValue(_)
DigitsValue(s) ==
    IF Len(s) = 0 THEN 0
    ELSE 10 * DigitsValue(SubSeq(s, 1, Len(s) - 1))
         + (Ord(CharAt(s, Len(s))) - 48)

AllIn(s, chars) == \A i \in 1..Len(s) : CharAt(s, i) \in chars

(***************************************************************************)
(* Dicts.                                                                  *)
(***************************************************************************)
EmptyDict == [k \in {} |-> ""]

\* d.get(k, default)
Get(d, k, default) == IF k \in DOMAIN d THEN d[k] ELSE default

\* d[k] = v
Put(d, k, v) == [x \in (DOMAIN d) \cup {k} |-> IF x = k THEN v ELSE d[x]]

Range(seq) == {seq[i] : i \in 1..Len(seq)}

SetMax(S) == CHOOSE m \in S : \A x \in S : x <= m

(***************************************************************************)
(* parse_xlsx: the cell reference decoder.                                 *)
(***************************************************************************)
RECURSIVE col_to_index_total(_, _)
col_to_index_total(col_ref, total) ==
    IF Len(col_ref) = 0 THEN total
    ELSE col_to_index_total(SubSeq(col_ref, 2, Len(col_ref)),
                            total * 26 + (Ord(CharAt(col_ref, 1)) - 64))

col_to_index(col_ref) == col_to_index_total(col_ref, 0) - 1

\* re.match(r"([A-Z]+)", ref).group(1): the leading capital letters, "" when
\* the reference does not start with one (no match).
RECURSIVE LetterPrefix(_)
LetterPrefix(ref) ==
    IF Len(ref) > 0 /\ CharAt(ref, 1) \in Upper
    THEN CharAt(ref, 1) \o LetterPrefix(SubSeq(ref, 2, Len(ref)))
    ELSE ""

(***************************************************************************)
(* parse_xlsx: the value of one cell.  A cell is [r, t, v]: its r          *)
(* attribute, its t attribute ("" when absent) and the text of its value   *)
(* node (a:is/a:t for an inline string, a:v otherwise) as <<text>>, or     *)
(* <<>> when the node or its text is missing.                              *)
(***************************************************************************)
\* int(raw): surrounding whitespace and one sign are accepted.
PyInt(raw) ==
    LET s == Strip(raw)
        signed == Len(s) > 0 /\ CharAt(s, 1) \in {"-", "+"}
        body == IF signed THEN SubSeq(s, 2, Len(s)) ELSE s
    IN  IF Len(body) > 0 /\ AllIn(body, Digits)
        THEN [ok |-> TRUE,
              n |-> IF signed /\ CharAt(s, 1) = "-"
                    THEN 0 - DigitsValue(body) ELSE DigitsValue(body)]
        ELSE [ok |-> FALSE, n |-> 0]

\* A slip: the index taken as counting from 1.
ListIndexFromOne(list, i) ==
    IF i >= 1 /\ i <= Len(list) THEN [ok |-> TRUE, value |-> list[i]]
    ELSE [ok |-> FALSE, value |-> ""]

\* shared_strings[i]: a negative i counts from the end of the list.
ListIndex(list, i) ==
    IF i >= 0 /\ i < Len(list) THEN [ok |-> TRUE, value |-> list[i + 1]]
    ELSE IF i < 0 /\ 0 - i <= Len(list)
         THEN [ok |-> TRUE, value |-> list[Len(list) + i + 1]]
         ELSE [ok |-> FALSE, value |-> ""]

\* Lines 48-57: the unstripped value of a cell, or the exception raised.
CellValue(cell, pool) ==
    IF cell.t = "inlineStr"
    THEN [err |-> "none", value |-> IF cell.v = <<>> THEN "" ELSE cell.v[1]]
    ELSE IF cell.v = <<>>
         THEN [err |-> "none", value |-> ""]
         ELSE IF cell.t = "s"
              THEN LET i == PyInt(cell.v[1]) IN
                   IF ~i.ok THEN [err |-> "ValueError", value |-> ""]
                   ELSE LET e == ListIndex(pool, i.n) IN
                        IF e.ok THEN [err |-> "none", value |-> e.value]
                        ELSE [err |-> "IndexError", value |-> ""]
              ELSE [err |-> "none", value |-> cell.v[1]]

\* Line 59: what is stored for the cell.
StoredValue(value) == Strip(value)

\* Lines 39-59: the cells of one row, in document order, into values.
RECURSIVE ParseCells(_, _, _)
ParseCells(cells, pool, values) ==
    IF Len(cells) = 0 THEN [err |-> "none", values |-> values]
    ELSE LET cell == Head(cells)
             letters == LetterPrefix(cell.r)
         IN  IF letters = ""
             THEN ParseCells(Tail(cells), pool, values)
             ELSE LET res == CellValue(cell, pool) IN
                  IF res.err # "none"
                  THEN [err |-> res.err, values |-> values]
                  ELSE ParseCells(Tail(cells), pool,
                                  Put(values, col_to_index(letters),
                                      StoredValue(res.value)))

(***************************************************************************)
(* parse_xlsx: the table assembler.                                        *)
(***************************************************************************)
MinRows == 4

\* A slip: one row too few is let through.
TooFewRowsOffByOne(rs) == Len(rs) < MinRows - 1

TooFewRows(rs) == Len(rs) < MinRows

\* max(row.keys(), default=0)
RowMax(row) == IF DOMAIN row = {} THEN 0 ELSE SetMax(DOMAIN row)

\* Line 65.
MaxCol(rs) == SetMax({RowMax(rs[i]) : i \in 1..Len(rs)})

\* f"COL_{idx}" for the indices the model reaches.
Str(n) == IF n < 10 THEN CharAt(DigitChars, n + 1)
          ELSE CharAt(DigitChars, (n \div 10) + 1)
               \o CharAt(DigitChars, (n % 10) + 1)

\* Line 72.
ColName(header_row, i) == Get(header_row, i, "COL_" \o Str(i))

\* Lines 69-73: columns[i + 1] is the name of column index i.
Columns(rs) == [i \in 1..(MaxCol(rs) + 1) |-> ColName(rs[1], i - 1)]

\* The index (from 1) of the last column that carries the name.
LastIndexOf(cols, name) == SetMax({i \in 1..Len(cols) : cols[i] = name})

\* Line 74: a later column of the same name replaces the entry.
Questions(rs, cols) ==
    [name \in Range(cols) |-> Get(rs[2], LastIndexOf(cols, name) - 1, "")]

\* Line 78: a dict comprehension, a later column of the same name wins.
Record(row, cols) ==
    [name \in Range(cols) |-> Get(row, LastIndexOf(cols, name) - 1, "")]

DataStart == 3

\* Lines 76-79: rows[3:]; records[k] is built from rs[DataStart + k], which
\* is row DataStart + k - 1 in the numbering from 0.
Records(rs, cols) ==
    [k \in 1..(Len(rs) - DataStart) |-> Record(rs[DataStart + k], cols)]

(***************************************************************************)
(* The run of parse_xlsx.                                                  *)
(***************************************************************************)
StructureError == "ValueError: Unexpected worksheet structure"

Cell(r, t, v) == [r |-> r, t |-> t, v |-> v]

\* Lines 27-35: the archive is read; its shared strings are the pool.
OpenArchive(Pools) ==
    /\ pc = "open"
    /\ \E pool \in Pools : shared_strings' = pool
    /\ pc' = "rows"
    /\ UNCHANGED <<err, out_dir, files, rows, columns, questions, records,
                   row_cells, idx, long_rows, course_scores, ranking_rows,
                   question_text, course_name>>

\* Lines 38-60: one iteration of the loop over the row elements.  An
\* exception of a cell (int(), the index) ends the run.
ParseRow(RowInputs) ==
    /\ pc = "rows"
    /\ Len(rows) < MaxRows
    /\ \E cells \in RowInputs[Len(rows)] :
          LET res == ParseCells(cells, shared_strings, EmptyDict) IN
          /\ row_cells' = cells
          /\ IF res.err = "none"
             THEN /\ rows' = Append(rows, res.values)
                  /\ UNCHANGED <<pc, err>>
             ELSE /\ pc' = "raised"
                  /\ err' = res.err
                  /\ UNCHANGED rows
    /\ UNCHANGED <<out_dir, files, shared_strings, columns, questions, records,
                   idx, long_rows, course_scores, ranking_rows,
                   question_text, course_name>>

\* Lines 62-81: after the last row element.
Assemble(return_pc) ==
    /\ pc = "rows"
    /\ IF TooFewRows(rows)
       THEN /\ pc' = "raised"
            /\ err' = StructureError
            /\ UNCHANGED <<columns, questions, records>>
       ELSE /\ columns' = Columns(rows)
            /\ questions' = Questions(rows, Columns(rows))
            /\ records' = Records(rows, Columns(rows))
            /\ pc' = return_pc
            /\ UNCHANGED err
    /\ UNCHANGED <<out_dir, files, shared_strings, rows, row_cells, idx,
                   long_rows, course_scores, ranking_rows,
                   question_text, course_name>>

(***************************************************************************)
(* SpecParse: parse_xlsx on small workbooks.                               *)
(***************************************************************************)
ParsePools == {<<>>, <<" a", "b">>}

ParseRows ==
    LET sA0   == Cell("A1", "s", <<"0">>)
        sB1   == Cell("B1", "s", <<"1">>)
        sAneg == Cell("A1", "s", <<"-1">>)
        sB2   == Cell("B1", "s", <<"2">>)
        sAx   == Cell("A1", "s", <<"x">>)
        iA    == Cell("A1", "inlineStr", <<>>)
        nB    == Cell("B1", "", <<"b ">>)
        skip  == Cell("7", "s", <<"5">>)
    IN  [n \in 0..MaxRows |->
            { <<>>, <<sA0>>, <<sA0, sB1>>, <<sAneg, nB>>, <<iA>>, <<sB2>>,
              <<sAx>>, <<skip, nB>>, <<iA, sA0>>, <<sB1>> }]

InitCommon ==
    /\ err = "none"
    /\ files = {}
    /\ shared_strings = <<>>
    /\ rows = <<>>
    /\ columns = <<>>
    /\ questions = EmptyDict
    /\ records = <<>>
    /\ row_cells = <<>>
    /\ idx = 0
    /\ long_rows = <<>>
    /\ course_scores = EmptyDict
    /\ ranking_rows = <<>>
    /\ course_name = <<>>

InitParse ==
    /\ pc = "open"
    /\ out_dir = "absent"
    /\ question_text = ""
    /\ InitCommon

ParseOpen == OpenArchive(ParsePools)
ParseNextRow == ParseRow(ParseRows)
ParseReturn == Assemble("returned")

NextParse == ParseOpen \/ ParseNextRow \/ ParseReturn

SpecParse == InitParse /\ [][NextParse]_vars

(***************************************************************************)
(* parse_course_name and clean_numeric.                                    *)
(***************************************************************************)
Separator == " - "

\* The least position at which sub occurs in s, 0 when it does not.
Find(s, sub) ==
    LET at == {i \in 1..(Len(s) - Len(sub) + 1) :
                  SubSeq(s, i, i + Len(sub) - 1) = sub}
    IN  IF at = {} THEN 0 ELSE CHOOSE i \in at : \A j \in at : i <= j

\* s.split(sub)[-1]: split cuts at the occurrences found from the left.
RECURSIVE SplitLast(_, _)
SplitLast(s, sub) ==
    IF Find(s, sub) = 0 THEN s
    ELSE SplitLast(SubSeq(s, Find(s, sub) + Len(sub), Len(s)), sub)

\* Lines 84-87.
parse_course_name(text) ==
    IF Find(text, Separator) # 0
    THEN Strip(SplitLast(text, Separator))
    ELSE IF Strip(text) # "" THEN Strip(text) ELSE "Unknown Course"

\* re.fullmatch(r"\d+(\.0+)?", value)
IsWholeLiteral(value) ==
    LET dot == Find(value, ".") IN
    IF dot = 0 THEN Len(value) > 0 /\ AllIn(value, Digits)
    ELSE /\ dot > 1
         /\ AllIn(SubSeq(value, 1, dot - 1), Digits)
         /\ dot < Len(value)
         /\ AllIn(SubSeq(value, dot + 1, Len(value)), {"0"})

\* Lines 90-96: [ok |-> FALSE] is None.  int(float(value)) of a matching
\* value is the number its digits before the point spell.
clean_numeric(raw) ==
    LET value == Strip(raw)
        dot == Find(value, ".")
    IN  IF value = "" THEN [ok |-> FALSE, n |-> 0]
        ELSE IF IsWholeLiteral(value)
             THEN [ok |-> TRUE,
                   n |-> DigitsValue(IF dot = 0 THEN value
                                     ELSE SubSeq(value, 1, dot - 1))]
             ELSE [ok |-> FALSE, n |-> 0]

(***************************************************************************)
(* main: normalisation and aggregation.                                    *)
(***************************************************************************)
\* The keys of the questions dict in insertion order: the column names, each
\* at its first occurrence.
KeysInOrder(cols) ==
    SelectSeq([i \in 1..Len(cols) |-> [name |-> cols[i], first |->
                  \A j \in 1..(i - 1) : cols[j] # cols[i]]],
              LAMBDA e : e.first)

\* Line 139.
CoreFields(cols) ==
    LET keys == KeysInOrder(cols)
        core == SelectSeq(keys, LAMBDA e : StartsWith(e.name, "Q35_"))
    IN  [i \in 1..Len(core) |-> core[i].name]

\* Line 140.
ElectiveFields ==
    <<"Q76_1", "Q77_2", "Q78_3", "Q83_4", "Q82_5", "Q80_6", "Q81_9", "Q79_7">>

\* Line 146.
IsFinished(row) ==
    Strip(Get(row, "Finished", "")) \in {"1", "true", "TRUE", "True"}

\* Lines 154 and 172: the value is kept.
CoreLow == 1
CoreHigh == 8
ElectiveLow == 1
ElectiveHigh == 5

\* A slip: the upper limit is let through.
CoreInRangeLoose(rank) == ~(rank < CoreLow \/ rank > CoreHigh + 1)

CoreInRange(rank) == ~(rank < CoreLow \/ rank > CoreHigh)

ElectiveInRange(rating) == ~(rating < ElectiveLow \/ rating > ElectiveHigh)

\* Line 157: ((9 - rank) / 8.0) * 100.0, in thousandths.
CoreScore(rank) == ((9 - rank) * 100000) \div 8

\* Line 175: ((rating - 1) / 4.0) * 100.0, in thousandths.
ElectiveScore(rating) == ((rating - 1) * 100000) \div 4

\* course_scores is the defaultdict in insertion order: a sequence of
\* [course, core, elective].  course_scores[course][kind].append(score)
AppendScore(scores, course, kind, score) ==
    IF \E i \in 1..Len(scores) : scores[i].course = course
    THEN [i \in 1..Len(scores) |->
            IF scores[i].course # course THEN scores[i]
            ELSE IF kind = "core"
                 THEN [scores[i] EXCEPT !.core = Append(@, score)]
                 ELSE [scores[i] EXCEPT !.elective = Append(@, score)]]
    ELSE Append(scores,
                [course |-> course,
                 core |-> IF kind = "core" THEN <<score>> ELSE <<>>,
                 elective |-> IF kind = "core" THEN <<>> ELSE <<score>>])

LongRow(row, course, source_type, n, score) ==
    [response_id |-> Get(row, "ResponseId", ""),
     course |-> course,
     source_type |-> source_type,
     response_value |-> Str(n),
     normalized_score |-> score]

\* Lines 151-167: the core fields of one finished record, in order; acc is
\* [scores, long].
RECURSIVE CoreLoop(_, _, _, _)
CoreLoop(fields, row, qs, acc) ==
    IF Len(fields) = 0 THEN acc
    ELSE LET rank == clean_numeric(Get(row, Head(fields), ""))
             course == parse_course_name(Get(qs, Head(fields), ""))
         IN  IF ~rank.ok \/ ~CoreInRange(rank.n)
             THEN CoreLoop(Tail(fields), row, qs, acc)
             ELSE CoreLoop(Tail(fields), row, qs,
                    [scores |-> AppendScore(acc.scores, course, "core",
                                            CoreScore(rank.n)),
                     long |-> Append(acc.long,
                                LongRow(row, course, "core_rank", rank.n,
                                        CoreScore(rank.n)))])

\* Lines 169-185: the elective fields of one finished record, in order.
RECURSIVE ElectiveLoop(_, _, _, _)
ElectiveLoop(fields, row, qs, acc) ==
    IF Len(fields) = 0 THEN acc
    ELSE LET rating == clean_numeric(Get(row, Head(fields), ""))
             course == parse_course_name(Get(qs, Head(fields), ""))
         IN  IF ~rating.ok \/ ~ElectiveInRange(rating.n)
             THEN ElectiveLoop(Tail(fields), row, qs, acc)
             ELSE ElectiveLoop(Tail(fields), row, qs,
                    [scores |-> AppendScore(acc.scores, course, "elective",
                                            ElectiveScore(rating.n)),
                     long |-> Append(acc.long,
                                LongRow(row, course, "elective_rating",
                                        rating.n, ElectiveScore(rating.n)))])

\* Lines 145-185: the body of the loop for one record.
ScoreRecord(row, cols, qs, acc) ==
    IF ~IsFinished(row) THEN acc
    ELSE ElectiveLoop(ElectiveFields, row, qs,
                      CoreLoop(CoreFields(cols), row, qs, acc))

(***************************************************************************)
(* main: the ranking.                                                      *)
(***************************************************************************)
RECURSIVE SeqSum(_)
SeqSum(seq) == IF Len(seq) = 0 THEN 0 ELSE Head(seq) + SeqSum(Tail(seq))

\* statistics.fmean(vals) as the exact fraction.
FMean(vals) == [sum |-> SeqSum(vals), n |-> Len(vals)]

\* a < b for two means.
MeanLess(a, b) == a.sum * b.n < b.sum * a.n

\* A slip: the responses counted from the core scores alone.
RankingRowCoreCount(entry) ==
    [course |-> entry.course,
     overall_score |-> FMean(entry.core \o entry.elective),
     num_responses |-> Len(entry.core),
     core_pref_score |-> IF entry.core # <<>> THEN <<FMean(entry.core)>>
                         ELSE <<>>,
     core_n |-> Len(entry.core),
     elective_rating_score |-> IF entry.elective # <<>>
                               THEN <<FMean(entry.elective)>> ELSE <<>>,
     elective_n |-> Len(entry.elective),
     rank |-> 0]

\* Lines 194-204; <<>> is None.
RankingRow(entry) ==
    LET all_vals == entry.core \o entry.elective IN
    [course |-> entry.course,
     overall_score |-> FMean(all_vals),
     num_responses |-> Len(all_vals),
     core_pref_score |-> IF entry.core # <<>> THEN <<FMean(entry.core)>>
                         ELSE <<>>,
     core_n |-> Len(entry.core),
     elective_rating_score |-> IF entry.elective # <<>>
                               THEN <<FMean(entry.elective)>> ELSE <<>>,
     elective_n |-> Len(entry.elective),
     rank |-> 0]

\* Lines 188-193: the courses that have a score, in insertion order.
Ranked(scores) ==
    LET kept == SelectSeq(scores,
                          LAMBDA e : e.core \o e.elective # <<>>)
    IN  [i \in 1..Len(kept) |-> RankingRow(kept[i])]

\* A slip: the key without the course name.
KeyLessNoName(a, b) ==
    IF MeanLess(b.overall_score, a.overall_score) THEN TRUE
    ELSE IF MeanLess(a.overall_score, b.overall_score) THEN FALSE
    ELSE a.num_responses > b.num_responses

\* Line 206: key(a) < key(b) for the key
\* (-overall_score, -num_responses, course).
KeyLess(a, b) ==
    IF MeanLess(b.overall_score, a.overall_score) THEN TRUE
    ELSE IF MeanLess(a.overall_score, b.overall_score) THEN FALSE
    ELSE IF a.num_responses > b.num_responses THEN TRUE
    ELSE IF a.num_responses < b.num_responses THEN FALSE
    ELSE StrLess(a.course, b.course)

\* list.sort is stable: an element goes before the first one of a greater
\* key.
RECURSIVE SortedInsert(_, _)
SortedInsert(sorted, r) ==
    IF Len(sorted) = 0 THEN <<r>>
    ELSE IF KeyLess(r, Head(sorted)) THEN <<r>> \o sorted
    ELSE <<Head(sorted)>> \o SortedInsert(Tail(sorted), r)

RECURSIVE Sort(_)
Sort(list) ==
    IF Len(list) = 0 THEN <<>>
    ELSE SortedInsert(Sort(SubSeq(list, 1, Len(list) - 1)), list[Len(list)])

\* Lines 208-209.
Numbered(list) == [i \in 1..Len(list) |-> [list[i] EXCEPT !.rank = i]]

\* Lines 187-209.
Ranking(scores) == Numbered(Sort(Ranked(scores)))

(***************************************************************************)
(* The run of main.                                                        *)
(***************************************************************************)
\* Line 135: output_dir.mkdir(parents=True, exist_ok=True), before the parse.
Mkdir ==
    /\ pc = "start"
    /\ out_dir' = IF out_dir = "absent" THEN "created" ELSE out_dir
    /\ pc' = "open"
    /\ UNCHANGED <<err, files, shared_strings, rows, columns, questions,
                   records, row_cells, idx, long_rows, course_scores,
                   ranking_rows, question_text, course_name>>

\* Lines 145-185: one iteration of the loop over the records.
ProcessRecord ==
    /\ pc = "records"
    /\ idx < Len(records)
    /\ LET acc == ScoreRecord(records[idx + 1], columns, questions,
                              [scores |-> course_scores, long |-> long_rows])
       IN  /\ course_scores' = acc.scores
           /\ long_rows' = acc.long
    /\ idx' = idx + 1
    /\ UNCHANGED <<pc, err, out_dir, files, shared_strings, rows, columns,
                   questions, records, row_cells, ranking_rows,
                   question_text, course_name>>

\* Lines 187-209: after the last record.
BuildRanking ==
    /\ pc = "records"
    /\ idx = Len(records)
    /\ ranking_rows' = Ranking(course_scores)
    /\ pc' = "write_long"
    /\ UNCHANGED <<err, out_dir, files, shared_strings, rows, columns,
                   questions, records, row_cells, idx, long_rows,
                   course_scores, question_text, course_name>>

Write(at, name, then) ==
    /\ pc = at
    /\ files' = files \cup {name}
    /\ pc' = then
    /\ UNCHANGED <<err, out_dir, shared_strings, rows, columns, questions,
                   records, row_cells, idx, long_rows, course_scores,
                   ranking_rows, question_text, course_name>>

\* Lines 211-218.
WriteLong == Write("write_long", "cleaned_responses_long.csv", "write_ranking")

\* Lines 220-247.
WriteRanking == Write("write_ranking", "course_ranking.csv", "write_svg")

\* Lines 249-258.
WriteSvg == Write("write_svg", "course_ranking.svg", "write_summary")

\* Lines 260-275.
WriteSummary == Write("write_summary", "summary.md", "done")

Artifacts ==
    {"cleaned_responses_long.csv", "course_ranking.csv", "course_ranking.svg",
     "summary.md"}

(***************************************************************************)
(* Spec: main on small survey workbooks.  Row 0 names the columns, row 1   *)
(* holds the question texts, row 2 is the separator, the rest is data.     *)
(***************************************************************************)
SurveyPools == {<<"Finished", "Q35_1", "Q35_2", "Q76_1", "Q77_2">>}

Inline(r, text) == Cell(r, "inlineStr", <<text>>)

Shared(r, i) == Cell(r, "s", <<i>>)

Plain(r, text) == Cell(r, "", <<text>>)

SurveyHeaders ==
    { <<Shared("A1", "0"), Shared("B1", "1"), Shared("C1", "2"),
        Shared("D1", "3")>>,
      <<Shared("A1", "0"), Shared("B1", "1"), Shared("C1", "3"),
        Shared("D1", "4")>> }

SurveyQuestions ==
    { <<Inline("B2", "Rank - Tax"), Inline("C2", "Rank - Audit"),
        Inline("D2", "Rate - Tax")>>,
      <<Inline("B2", "Tax"), Inline("C2", "Audit"), Inline("D2", "Law")>>,
      <<Inline("B2", "Rank - Audit"), Inline("D2", "Audit")>> }

DataRow(a, b, c, d) ==
    <<Plain("A4", a), Plain("B4", b), Plain("C4", c), Plain("D4", d)>>

SurveyData ==
    { DataRow("1", "1", "1", "5"),
      DataRow("1", "8", "9", "1"),
      DataRow("True", "3.0", "x", "0"),
      DataRow("0", "1", "2", "3"),
      DataRow("1", "", " 2 ", "6"),
      DataRow("1", "5", "1", "3"),
      DataRow("TRUE", "+3", "2.5", "05"),
      <<Plain("B4", "1"), Plain("C4", "1"), Plain("D4", "1")>>,
      <<Shared("A4", "9")>> }

SurveyRows ==
    [n \in 0..MaxRows |->
        IF n = 0 THEN SurveyHeaders
        ELSE IF n = 1 THEN SurveyQuestions
        ELSE IF n = 2 THEN {<<>>}
        ELSE SurveyData]

Init ==
    /\ pc = "start"
    /\ out_dir \in {"absent", "present"}
    /\ question_text = ""
    /\ InitCommon

MainOpen == OpenArchive(SurveyPools)
MainNextRow == ParseRow(SurveyRows)
MainParsed == Assemble("records")

Next ==
    \/ Mkdir
    \/ MainOpen
    \/ MainNextRow
    \/ MainParsed
    \/ ProcessRecord
    \/ BuildRanking
    \/ WriteLong
    \/ WriteRanking
    \/ WriteSvg
    \/ WriteSummary

Spec == Init /\ [][Next]_vars

(***************************************************************************)
(* Claims about parse_xlsx, checked under SpecParse.                       *)
(***************************************************************************)
\* The cells of the row parsed last that decide a stored value: cell j has
\* a column, and no later cell of the row has the same column.
HasColumn(cell) == LetterPrefix(cell.r) # ""

ColumnOf(cell) == col_to_index(LetterPrefix(cell.r))

Decides(cells, j) ==
    /\ HasColumn(cells[j])
    /\ \A k \in (j + 1)..Len(cells) :
          HasColumn(cells[k]) => ColumnOf(cells[k]) # ColumnOf(cells[j])

\* A cell of shared-string type whose value node holds an integer.
SharedRef(cell) ==
    /\ HasColumn(cell)
    /\ cell.t = "s"
    /\ cell.v # <<>>
    /\ PyInt(cell.v[1]).ok

InPool(cell) ==
    /\ PyInt(cell.v[1]).n >= 0
    /\ PyInt(cell.v[1]).n < Len(shared_strings)

PoolEntry(cell) == shared_strings[PyInt(cell.v[1]).n + 1]

RowStored == pc # "raised" /\ Len(rows) > 0

\* C4 as stated: a shared-string cell holding a valid index i is stored in
\* its raw row as exactly the i-th pool string, character for character.
C4_StoredExactly ==
    RowStored =>
        \A j \in 1..Len(row_cells) :
            (SharedRef(row_cells[j]) /\ InPool(row_cells[j])
                /\ Decides(row_cells, j))
            => rows[Len(rows)][ColumnOf(row_cells[j])] = PoolEntry(row_cells[j])

\* C4 amended: a shared-string cell holding a valid index i is stored in its
\* raw row as the i-th pool string with its surrounding whitespace removed
\* (index i, never another entry of the pool).
C4_StoredStripped ==
    RowStored =>
        \A j \in 1..Len(row_cells) :
            (SharedRef(row_cells[j]) /\ InPool(row_cells[j])
                /\ Decides(row_cells, j))
            => rows[Len(rows)][ColumnOf(row_cells[j])]
                   = Strip(PoolEntry(row_cells[j]))

\* C4 witness: a row holding the stripped form of a pool string that has
\* surrounding whitespace, and a second cell resolved to a later entry.
C4_Witness ==
    /\ RowStored
    /\ \E j \in 1..Len(row_cells) :
          /\ SharedRef(row_cells[j]) /\ InPool(row_cells[j])
          /\ Decides(row_cells, j)
          /\ PoolEntry(row_cells[j]) # Strip(PoolEntry(row_cells[j]))
          /\ rows[Len(rows)][ColumnOf(row_cells[j])]
                 = Strip(PoolEntry(row_cells[j]))
    /\ \E j \in 1..Len(row_cells) :
          /\ SharedRef(row_cells[j]) /\ InPool(row_cells[j])
          /\ PyInt(row_cells[j].v[1]).n = 1

\* C9 as stated: a shared-string cell whose integer lies outside 0..N-1
\* (negative included, N = 0 included) ends the parse with a failure.
C9_OutOfRangeFails ==
    (\E j \in 1..Len(row_cells) :
        SharedRef(row_cells[j]) /\ ~InPool(row_cells[j]))
    => pc = "raised"

Returned == pc = "returned"

\* C1 as stated: N >= 4 rows give N - 3 records, the k-th from raw row
\* 3 + k, each holding for the column at index i the raw value at index i,
\* or "" when the raw row has no cell there.
C1_RecordsMirrorRows ==
    Returned =>
        /\ Len(rows) >= 4
        /\ Len(records) = Len(rows) - 3
        /\ \A k \in 1..Len(records) :
             \A i \in 0..(Len(columns) - 1) :
                /\ columns[i + 1] \in DOMAIN records[k]
                /\ records[k][columns[i + 1]] = Get(rows[3 + k], i, "")

\* max over the rows of the largest column index, 0 for a row without cells.
MaxObservedCol ==
    SetMax({0} \cup UNION {DOMAIN rows[n] : n \in 1..Len(rows)})

\* C3 as stated: the schema has max observed index + 1 names, an index
\* without a header cell is named COL_<index>, and no name is "".
C3_NoColumnUnnamed ==
    Returned =>
        /\ Len(columns) = MaxObservedCol + 1
        /\ \A i \in 0..MaxObservedCol :
             /\ i \notin DOMAIN rows[1] => columns[i + 1] = "COL_" \o Str(i)
             /\ columns[i + 1] # ""

\* The part of C3 that the code keeps: the count and the synthetic names.
C3_CountAndSynthetic ==
    Returned =>
        /\ Len(columns) = MaxObservedCol + 1
        /\ \A i \in 0..MaxObservedCol :
             i \notin DOMAIN rows[1] => columns[i + 1] = "COL_" \o Str(i)

\* The part of C1 that the code keeps: the count, the order, and the values
\* when no two columns share a name.
C1_WhenNamesDistinct ==
    Returned =>
        /\ Len(records) = Len(rows) - 3
        /\ Cardinality(Range(columns)) = Len(columns) =>
             \A k \in 1..Len(records) :
                \A i \in 0..(Len(columns) - 1) :
                   records[k][columns[i + 1]] = Get(rows[3 + k], i, "")

(***************************************************************************)
(* Claims about main, checked under Spec.                                  *)
(***************************************************************************)
Failed == pc = "raised"

PastParse == pc \notin {"start", "open", "rows", "raised"}

CountOf(seq, Test(_)) == Cardinality({i \in 1..Len(seq) : Test(seq[i])})

\* C5 as stated: among the core scores, rank 1 is 100.0 and rank 8 is 0.0.
C5_CoreScale ==
    \A i \in 1..Len(long_rows) :
        long_rows[i].source_type = "core_rank" =>
            /\ long_rows[i].response_value = "1"
                  => long_rows[i].normalized_score = 100000
            /\ long_rows[i].response_value = "8"
                  => long_rows[i].normalized_score = 0

\* The part of C5 that the code keeps: rank 1 is 100.0.
C5_RankOne ==
    \A i \in 1..Len(long_rows) :
        (long_rows[i].source_type = "core_rank"
            /\ long_rows[i].response_value = "1")
        => long_rows[i].normalized_score = 100000

\* The notations of the whole number k: its digit, zeros before it, and a
\* point followed by zeros after it.
Zeros == {"", "0", "00"}

Spells(value, k) ==
    \E lead \in Zeros, frac \in Zeros :
        value = lead \o Str(k) \o (IF frac = "" THEN "" ELSE "." \o frac)

FinishedRecord(rec) ==
    /\ "Finished" \in DOMAIN rec
    /\ rec["Finished"] \in {"1", "true", "TRUE", "True"}

\* The fields of the two source types that the worksheet has.
FieldKinds ==
    [core_rank |-> Range(CoreFields(columns)),
     elective_rating |-> Range(ElectiveFields) \cap Range(columns)]

FieldRange == [core_rank |-> 1..8, elective_rating |-> 1..5]

SourceTypes == {"core_rank", "elective_rating"}

\* Record j, field f of source type src contributes the whole number k.
Contributes(j, f, src, k) ==
    /\ FinishedRecord(records[j])
    /\ f \in DOMAIN records[j]
    /\ k \in FieldRange[src]
    /\ Spells(records[j][f], k)

CourseOf(f) == parse_course_name(Get(questions, f, ""))

Courses == {CourseOf(f) : f \in FieldKinds.core_rank \cup FieldKinds.elective_rating}

\* The contributions of the records processed so far to a course and a
\* source type with the value k.
Due(course, src, k) ==
    {<<j, f>> \in (1..idx) \X FieldKinds[src] :
        Contributes(j, f, src, k) /\ CourseOf(f) = course}

ScoresOf(course, src) ==
    LET hit == {i \in 1..Len(course_scores) :
                   course_scores[i].course = course}
    IN  IF hit = {} THEN <<>>
        ELSE IF src = "core_rank"
             THEN course_scores[CHOOSE i \in hit : TRUE].core
             ELSE course_scores[CHOOSE i \in hit : TRUE].elective

\* The same, whatever the value.
DueAny(course, src) ==
    {<<j, f>> \in (1..idx) \X FieldKinds[src] :
        (\E k \in 0..9 : Contributes(j, f, src, k)) /\ CourseOf(f) = course}

RankingBuilt == pc \in {"write_long", "write_ranking", "write_svg",
                         "write_summary", "done"}

SameScore(a, b) ==
    a.overall_score.sum * b.overall_score.n
        = b.overall_score.sum * a.overall_score.n

HigherScore(a, b) ==
    a.overall_score.sum * b.overall_score.n
        > b.overall_score.sum * a.overall_score.n

\* Row a belongs strictly before row b.
Precedes(a, b) ==
    \/ HigherScore(a, b)
    \/ SameScore(a, b) /\ a.num_responses > b.num_responses
    \/ /\ SameScore(a, b)
       /\ a.num_responses = b.num_responses
       /\ StrLess(a.course, b.course)

\* C7: the ranking is in the strict order of score descending, count
\* descending, name ascending; no name occurs twice; the ranks are 1..n in
\* that order.
C7_StrictTotalOrder ==
    RankingBuilt =>
        /\ \A i, j \in 1..Len(ranking_rows) :
             i < j => Precedes(ranking_rows[i], ranking_rows[j])
        /\ \A i, j \in 1..Len(ranking_rows) :
             i # j => ranking_rows[i].course # ranking_rows[j].course
        /\ \A i \in 1..Len(ranking_rows) : ranking_rows[i].rank = i

\* C7 witness: three courses of one score and one count, a pair apart by
\* the name alone.
C7_Witness ==
    /\ RankingBuilt
    /\ Len(ranking_rows) = 3
    /\ SameScore(ranking_rows[1], ranking_rows[3])
    /\ ranking_rows[1].num_responses = ranking_rows[3].num_responses
    /\ StrLess(ranking_rows[1].course, ranking_rows[2].course)

LongRowsOf(course) == CountOf(long_rows, LAMBDA r : r.course = course)

\* C8: a course is ranked exactly when a score was accumulated for it;
\* a ranked course has num_responses >= 1, and num_responses = core_n +
\* elective_n = the number of its long-format rows.
C8_RankedIffScored ==
    RankingBuilt =>
        /\ {ranking_rows[i].course : i \in 1..Len(ranking_rows)}
             = {c \in Courses : LongRowsOf(c) > 0}
        /\ \A i \in 1..Len(ranking_rows) :
             /\ ranking_rows[i].num_responses >= 1
             /\ ranking_rows[i].num_responses
                  = ranking_rows[i].core_n + ranking_rows[i].elective_n
             /\ ranking_rows[i].num_responses
                  = LongRowsOf(ranking_rows[i].course)

\* C8 witness: a ranked course with core and elective scores, and a course
\* of the survey without any score, which is not ranked.
C8_Witness ==
    /\ RankingBuilt
    /\ \E i \in 1..Len(ranking_rows) :
          ranking_rows[i].core_n >= 1 /\ ranking_rows[i].elective_n >= 1
    /\ \E c \in Courses :
          /\ LongRowsOf(c) = 0
          /\ \A i \in 1..Len(ranking_rows) : ranking_rows[i].course # c

(***************************************************************************)
(* SpecCourse: parse_course_name on every short text.                      *)
(***************************************************************************)
MaxTextLen == 4

TextChars == {" ", "-", "T"}

RECURSIVE Texts(_)
Texts(n) ==
    IF n = 0 THEN {""}
    ELSE Texts(n - 1) \cup {s \o c : s \in Texts(n - 1), c \in TextChars}

InitCourse ==
    /\ pc = "call"
    /\ out_dir = "absent"
    /\ question_text \in Texts(MaxTextLen)
    /\ InitCommon

\* Lines 84-87: the call.
CallParseCourseName ==
    /\ pc = "call"
    /\ course_name' = <<parse_course_name(question_text)>>
    /\ pc' = "returned"
    /\ UNCHANGED <<err, out_dir, files, shared_strings, rows, columns,
                   questions, records, row_cells, idx, long_rows,
                   course_scores, ranking_rows, question_text>>

NextCourse == CallParseCourseName

SpecCourse == InitCourse /\ [][NextCourse]_vars

C10_NoSeparator ==
    (course_name # <<>> /\ Find(question_text, " - ") = 0)
    => /\ course_name[1] # ""
       /\ Strip(question_text) = "" => course_name[1] = "Unknown Course"

====
